---------------------------- MODULE Spec2Model ----------------------------
(***************************************************************************)
(* State-machine model of the TSNN-P core: FatTreeHierarchy (the three-    *)
(* tier graph), SPCFramework (the registry of quantum states, the ethical  *)
(* constraints and the consciousness field) and SystemArchitecture (the    *)
(* facade).                                                                *)
(*                                                                         *)
(* Numbers.  A numpy array is a record [shape, data, finite]: data holds   *)
(* the flattened entries in units of 1/Scale, finite = FALSE is an array   *)
(* of NaN (what numpy's 0/0 division produces).  A Python/numpy float is a *)
(* rational [n, d] in lowest terms; d = 0 is NaN, and every comparison     *)
(* with NaN is false, as in IEEE arithmetic.                               *)
(***************************************************************************)
EXTENDS Integers, Sequences, FiniteSets, TLC

\* ------------------------------------------------------------------ bounds
MaxCount == 1          \* largest node count per layer that is explored
MaxGraphCount == 3     \* the same, where only the graph is queried
MaxOps == 2            \* longest sequence of state-changing calls explored
MaxPath == 2           \* most points of a path passed to quaternion_trajectory

\* fixed-point unit of array entries: an entry e stands for e / Scale
Scale == 10 * 10

\* quantum_dimension values explored
Dims == {2, 4}

\* ---------------------------------------------------------------- rationals
RECURSIVE Gcd(_, _)
Gcd(a, b) == IF b = 0 THEN a ELSE Gcd(b, a % b)

Abs(x) == IF x < 0 THEN -x ELSE x

NaN == [n |-> 0, d |-> 0]

\* n/d in lowest terms with a positive denominator; anything over 0 is NaN
Frac(n, d) ==
    IF d = 0 THEN NaN
    ELSE LET g == Gcd(Abs(n), Abs(d))
             s == IF d < 0 THEN -1 ELSE 1
         IN  [n |-> (s * n) \div g, d |-> (s * d) \div g]

Zero == Frac(0, 1)
One == Frac(1, 1)
IsNaN(x) == x.d = 0

RAdd(x, y) == IF IsNaN(x) \/ IsNaN(y) THEN NaN
              ELSE Frac(x.n * y.d + y.n * x.d, x.d * y.d)
RMul(x, y) == IF IsNaN(x) \/ IsNaN(y) THEN NaN ELSE Frac(x.n * y.n, x.d * y.d)
\* float division by a non-zero integer count
RDivInt(x, k) == IF IsNaN(x) THEN NaN ELSE Frac(x.n, x.d * k)

\* IEEE comparisons: false as soon as one side is NaN
RLt(x, y) == ~IsNaN(x) /\ ~IsNaN(y) /\ x.n * y.d < y.n * x.d
RGt(x, y) == RLt(y, x)
RLe(x, y) == ~IsNaN(x) /\ ~IsNaN(y) /\ x.n * y.d <= y.n * x.d
RGe(x, y) == RLe(y, x)

\* np.clip(x, 0.0, 1.0): NaN stays NaN
Clip01(x) == IF IsNaN(x) THEN NaN
             ELSE IF RLt(x, Zero) THEN Zero
             ELSE IF RGt(x, One) THEN One ELSE x

RECURSIVE SumFrom(_, _)
SumFrom(s, i) == IF i > Len(s) THEN Zero ELSE RAdd(s[i], SumFrom(s, i + 1))

SumSeq(s) == SumFrom(s, 1)

\* ------------------------------------------------------------------- arrays
RECURSIVE Product(_)
Product(s) == IF s = <<>> THEN 1 ELSE Head(s) * Product(Tail(s))

Size(a) == Len(a.data)

RECURSIVE DotFrom(_, _, _)
DotFrom(u, v, i) == IF i > Len(u) THEN 0 ELSE u[i] * v[i] + DotFrom(u, v, i + 1)

\* the sum of the products of corresponding entries
DotInt(u, v) == DotFrom(u, v, 1)

RECURSIVE SqrtSearch(_, _, _)
SqrtSearch(n, lo, hi) ==
    IF lo >= hi THEN lo
    ELSE LET mid == (lo + hi + 1) \div 2
         IN  IF mid * mid <= n THEN SqrtSearch(n, mid, hi)
             ELSE SqrtSearch(n, lo, mid - 1)

\* floor of the square root
ISqrt(n) == SqrtSearch(n, 0, IF n < 1024 * 1024 THEN 1024 ELSE n)

\* np.linalg.norm(a) (Frobenius), in units of 1/Scale; -1 stands for NaN
Norm(a) == IF a.finite THEN ISqrt(DotInt(a.data, a.data)) ELSE -1

NaNArray(shape) ==
    [shape |-> shape, data |-> [i \in 1..Product(shape) |-> 0], finite |-> FALSE]

\* a / np.linalg.norm(a): 0/0 is NaN in every entry (a warning, no exception);
\* an array without entries stays as it is
Normalize(a) ==
    LET nrm == Norm(a)
    IN  IF Len(a.data) = 0 THEN a
        ELSE IF ~a.finite \/ nrm = 0 THEN NaNArray(a.shape)
        ELSE [a EXCEPT !.data = [i \in 1..Len(a.data) |-> (a.data[i] * Scale) \div nrm]]

\* -------------------------------------------------------- random generator
\* np.random.rand(r, c): entries in [0, 1).  The generator is a stream of
\* draws; each draw is one of three matrices.
RowA(r, c) == [shape |-> <<r, c>>, finite |-> TRUE,
               data |-> [i \in 1..(r * c) |-> IF i = 1 THEN 60 ELSE IF i = 2 THEN 80 ELSE 0]]
Half(r, c) == [shape |-> <<r, c>>, finite |-> TRUE, data |-> [i \in 1..(r * c) |-> 50]]
Zeros(r, c) == [shape |-> <<r, c>>, finite |-> TRUE, data |-> [i \in 1..(r * c) |-> 0]]

Rand(kind, r, c) ==
    IF kind = "rowA" THEN RowA(r, c)
    ELSE IF kind = "half" THEN Half(r, c) ELSE Zeros(r, c)

\* the streams explored for the nodes' states: the k-th draw of stream s is
\* s[((k - 1) % Len(s)) + 1]
Streams == { <<"rowA">>, <<"half", "rowA", "zero">> }
Draw(s, k) == s[((k - 1) % Len(s)) + 1]

\* the draws explored for the consciousness field
FieldDraws == {"rowA", "half"}

\* ------------------------------------------------------- FatTreeHierarchy
VARIABLES core_nodes, aggregation_nodes, edge_nodes, nodes, edges

\* f"core_{i}", f"agg_{i}", f"edge_{i}"
NodeId(prefix, i) == <<prefix, i>>

\* [f"<prefix>_{i}" for i in range(count)]
IdRange(prefix, count) == [k \in 1..count |-> NodeId(prefix, k - 1)]

\* the Node dataclass as built by one loop iteration of _build_hierarchy
MakeNode(prefix, layer, li, i, state, threshold) ==
    [id |-> NodeId(prefix, i), layer |-> layer, position |-> <<li, i>>,
     quantum_state |-> state, fidelity_threshold |-> threshold]

\* insertion order of the nodes dict
NodeOrder(c, a, e) == IdRange("core", c) \o IdRange("agg", a) \o IdRange("edge", e)

RECURSIVE Flatten(_)
Flatten(ss) == IF ss = <<>> THEN <<>> ELSE Head(ss) \o Flatten(Tail(ss))

\* one nested pair of loops of _create_edges
Bipartite(us, vs) == Flatten([i \in 1..Len(us) |-> [j \in 1..Len(vs) |-> <<us[i], vs[j]>>]])

\* a build that joins the core layer to the aggregation layer only
CreateEdgesCoreOnly(c, a, e) == Bipartite(IdRange("core", c), IdRange("agg", a))

\* a build that also joins the core layer to the edge layer
CreateEdgesSkipLayer(c, a, e) ==
    Bipartite(IdRange("core", c), IdRange("agg", a))
        \o Bipartite(IdRange("agg", a), IdRange("edge", e))
        \o Bipartite(IdRange("core", c), IdRange("edge", e))

CreateEdges(c, a, e) ==
    Bipartite(IdRange("core", c), IdRange("agg", a))
        \o Bipartite(IdRange("agg", a), IdRange("edge", e))

Max0(x) == IF x < 0 THEN 0 ELSE x

\* _build_hierarchy: range(n) is empty for n <= 0; node k of the insertion
\* order takes the k-th draw of the generator
BuildNodes(c, a, e, s) ==
    LET cc == Max0(c)
        aa == Max0(a)
        ee == Max0(e)
    IN  [id \in {NodeId("core", i) : i \in 0..(cc - 1)}
               \cup {NodeId("agg", i) : i \in 0..(aa - 1)}
               \cup {NodeId("edge", i) : i \in 0..(ee - 1)} |->
            IF id[1] = "core"
            THEN MakeNode("core", "core", 0, id[2], Rand(Draw(s, id[2] + 1), 4, 4), Frac(95, 100))
            ELSE IF id[1] = "agg"
            THEN MakeNode("agg", "aggregation", 1, id[2],
                          Rand(Draw(s, cc + id[2] + 1), 4, 4), Frac(90, 100))
            ELSE MakeNode("edge", "edge", 2, id[2],
                          Rand(Draw(s, cc + aa + id[2] + 1), 4, 4), Frac(85, 100))]

\* _calculate_sync_fidelity: |trace(A @ B.T)| / (|A| |B|), clipped.  The
\* quotient is 0/0 = NaN when a norm is zero; np.clip leaves NaN alone.
CalculateSyncFidelity(n1, n2) ==
    LET a == n1.quantum_state
        b == n2.quantum_state
    IN  Clip01(Frac(Abs(DotInt(a.data, b.data)), Norm(a) * Norm(b)))

\* a mean that divides by the number of edges even when there is none
SynchronizeLayersUnguarded(ns, es) ==
    Frac(SumSeq([k \in 1..Len(es) |->
                   CalculateSyncFidelity(ns[es[k][1]], ns[es[k][2]])]).n, Len(es))

\* synchronize_layers: mean fidelity over the edges, 0.0 without edges
SynchronizeLayers(ns, es) ==
    IF Len(es) > 0
    THEN RDivInt(SumSeq([k \in 1..Len(es) |->
                            CalculateSyncFidelity(ns[es[k][1]], ns[es[k][2]])]), Len(es))
    ELSE Zero

\* get_node_by_layer, as the number of nodes it returns
NodesInLayer(ns, layer) == {id \in DOMAIN ns : ns[id].layer = layer}

\* a lookup that follows the edges from their first end only
RECURSIVE GetConnectedNodesOutgoing(_, _, _)
GetConnectedNodesOutgoing(es, node_id, k) ==
    IF k > Len(es) THEN <<>>
    ELSE (IF es[k][1] = node_id THEN <<es[k][2]>> ELSE <<>>)
            \o GetConnectedNodesOutgoing(es, node_id, k + 1)

\* get_connected_nodes: the loop over the edges from the k-th on
RECURSIVE GetConnectedNodes(_, _, _)
GetConnectedNodes(es, node_id, k) ==
    IF k > Len(es) THEN <<>>
    ELSE (IF es[k][1] = node_id THEN <<es[k][2]>>
          ELSE IF es[k][2] = node_id THEN <<es[k][1]>>
          ELSE <<>>)
            \o GetConnectedNodes(es, node_id, k + 1)

\* ------------------------------------------------------------ SPCFramework
VARIABLES dimension, quantum_states, ethical_constraints, consciousness_field

\* _initialize_ethical_constraints
InitialEthicalConstraints ==
    << [name |-> "fidelity_threshold", threshold |-> Frac(95, 100)],
       [name |-> "coherence_threshold", threshold |-> Frac(90, 100)],
       [name |-> "entanglement_bound", threshold |-> Frac(85, 100)] >>

\* _initialize_consciousness_field: rand(dimension, dimension) / norm
InitialConsciousnessField(dim, draw) == Normalize(Rand(draw, dim, dim))

\* what the callers pass as a wavefunction: the flat vector [1, 0, 0, 0], an
\* unnormalised dim x dim matrix and the dim x dim zero matrix
Unit4 == [shape |-> <<4>>, finite |-> TRUE, data |-> <<100, 0, 0, 0>>]
WavefunctionKinds == {"unit4", "half", "zero"}
Wavefunction(kind, dim) == IF kind = "unit4" THEN Unit4 ELSE Rand(kind, dim, dim)

\* _calculate_coherence: Re trace(rho @ rho) with rho = outer(w, conj(w)),
\* which is (sum |w_i|^2)^2
CalculateCoherence(w) ==
    IF ~w.finite THEN NaN
    ELSE LET p == Frac(DotInt(w.data, w.data), Scale * Scale) IN RMul(p, p)

\* _calculate_entanglement_entropy: np.linalg.eigvals refuses a matrix with
\* NaN entries (LinAlgError).  Otherwise the noisy state is renormalised, its
\* density matrix has the one eigenvalue 1 above the 1e-10 cut, and the
\* entropy is -log2(1 + 1e-10): 0 at the resolution of this model, whatever
\* the noise drawn.
\* an eigvals that takes NaN entries without complaint
EigvalsNeverRaises(w) == FALSE

EigvalsRaises(w) == ~w.finite
CalculateEntanglementEntropy(w) == Zero

\* np.vdot flattens both operands and needs as many entries in each
VdotRaises(a, b) == Size(a) # Size(b)
AbsVdot(a, b) ==
    IF ~a.finite \/ ~b.finite THEN NaN
    ELSE Frac(Abs(DotInt(a.data, b.data)), Scale * Scale)

\* the norm of an array as a float
NormFloat(a) == IF a.finite THEN Frac(Norm(a), Scale) ELSE NaN

RDiv(x, y) == IF IsNaN(x) \/ IsNaN(y) THEN NaN ELSE Frac(x.n * y.d, x.d * y.n)

\* _calculate_ethical_fidelity (the field is never None after __init__)
CalculateEthicalFidelity(w, field) ==
    Clip01(RDiv(AbsVdot(w, field), RMul(NormFloat(w), NormFloat(field))))

\* the QuantumState dataclass built from a normalised wavefunction
MakeQuantumState(w, field) ==
    [wavefunction |-> w,
     coherence |-> CalculateCoherence(w),
     entanglement_entropy |-> CalculateEntanglementEntropy(w),
     ethical_fidelity |-> CalculateEthicalFidelity(w, field)]

NoState == [wavefunction |-> NaNArray(<<1>>), coherence |-> NaN,
            entanglement_entropy |-> NaN, ethical_fidelity |-> NaN]

\* an assignment that leaves st as the only entry
PutOnly(qs, id, st) == [k \in {id} |-> st]

\* qs with qs[id] = st (dict assignment: insert or overwrite)
Put(qs, id, st) == [k \in DOMAIN qs \cup {id} |-> IF k = id THEN st ELSE qs[k]]

\* a delete that empties the registry
DelAll(qs, id) == << >>

\* del qs[id]
Del(qs, id) == [k \in DOMAIN qs \ {id} |-> qs[k]]

\* an in-place division (wavefunction /= norm) would write into the array of
\* the caller
CallerArrayNormalisedInPlace(a) == Normalize(a)

\* the array the caller passed to create_quantum_state, after the call:
\* `wavefunction = wavefunction / norm` binds the local name to a new array,
\* the array passed in keeps its entries
CallerArrayAfterCreate(a) == a

\* create_quantum_state: the exception it raises ("none" when it returns),
\* the registry afterwards and the state returned
CreateQuantumState(qs, field, id, wavefunction) ==
    LET w == Normalize(wavefunction)
    IN  IF EigvalsRaises(w)
        THEN [err |-> "LinAlgError", qs |-> qs, state |-> NoState]
        ELSE IF VdotRaises(w, field)
        THEN [err |-> "ValueError", qs |-> qs, state |-> NoState]
        ELSE [err |-> "none", qs |-> Put(qs, id, MakeQuantumState(w, field)),
              state |-> MakeQuantumState(w, field)]

\* the Hamiltonians (with their evolution time) the callers pass, named by
\* the evolution operator (I - iHt/1000)^1000 they give, to two decimals:
\* "zero" is H = 0 (the identity), "swap" is H = (pi/2)(X - I), t = 1, with X
\* exchanging the first two basis vectors (the operator is X)
Hamiltonians == {"zero", "swap"}

\* evolution_operator @ wavefunction needs dim rows in the wavefunction
MatmulRaises(dim, w) == w.shape[1] # dim

\* rows 1 and 2 of w exchanged (w has dim >= 2 rows)
SwapRows(w) ==
    LET k == IF Len(w.shape) = 1 THEN 1 ELSE w.shape[2]
    IN  [w EXCEPT !.data = [i \in 1..Len(w.data) |->
            IF i <= k THEN w.data[i + k]
            ELSE IF i <= 2 * k THEN w.data[i - k] ELSE w.data[i]]]

ApplyEvolution(h, w) == IF h = "swap" THEN SwapRows(w) ELSE w

\* an evolve that creates the record it does not find
EvolveQuantumStateCreates(qs, field, dim, id, h) ==
    IF id \notin DOMAIN qs
    THEN [err |-> "none", qs |-> Put(qs, id, NoState), state |-> NoState]
    ELSE [err |-> "ValueError", qs |-> qs, state |-> NoState]

\* an evolve that builds the registry anew around the record it evolved
EvolveQuantumStateForgetting(qs, field, dim, id, h) ==
    IF id \notin DOMAIN qs \/ MatmulRaises(dim, qs[id].wavefunction)
    THEN [err |-> "ValueError", qs |-> qs, state |-> NoState]
    ELSE LET w == Normalize(ApplyEvolution(h, qs[id].wavefunction))
         IN  IF EigvalsRaises(w) \/ VdotRaises(w, field)
             THEN [err |-> "LinAlgError", qs |-> qs, state |-> NoState]
             ELSE [err |-> "none", qs |-> Put(<< >>, id, MakeQuantumState(w, field)),
                   state |-> MakeQuantumState(w, field)]

\* evolve_quantum_state
EvolveQuantumState(qs, field, dim, id, h) ==
    IF id \notin DOMAIN qs
    THEN [err |-> "ValueError", qs |-> qs, state |-> NoState]
    ELSE IF MatmulRaises(dim, qs[id].wavefunction)
    THEN [err |-> "ValueError", qs |-> qs, state |-> NoState]
    ELSE LET w == Normalize(ApplyEvolution(h, qs[id].wavefunction))
         IN  IF EigvalsRaises(w)
             THEN [err |-> "LinAlgError", qs |-> qs, state |-> NoState]
             ELSE IF VdotRaises(w, field)
             THEN [err |-> "ValueError", qs |-> qs, state |-> NoState]
             ELSE [err |-> "none", qs |-> Put(qs, id, MakeQuantumState(w, field)),
                   state |-> MakeQuantumState(w, field)]

\* one constraint of the loop of apply_ethical_constraints: TRUE when the
\* constraint makes the method return False
ConstraintViolated(st, c) ==
    IF c.name = "fidelity_threshold" THEN RLt(st.ethical_fidelity, c.threshold)
    ELSE IF c.name = "coherence_threshold" THEN RLt(st.coherence, c.threshold)
    ELSE IF c.name = "entanglement_bound" THEN RGt(st.entanglement_entropy, c.threshold)
    ELSE FALSE

\* apply_ethical_constraints
ApplyEthicalConstraints(qs, cs, id) ==
    IF id \notin DOMAIN qs THEN FALSE
    ELSE \A k \in 1..Len(cs) : ~ConstraintViolated(qs[id], cs[k])

\* get_consciousness_integration (np.vdot raises when the sizes differ; the
\* field keeps dim x dim entries, so a stored wavefunction always fits)
GetConsciousnessIntegration(qs, field, id) ==
    IF id \notin DOMAIN qs THEN Zero
    ELSE Clip01(AbsVdot(qs[id].wavefunction, field))

\* the keys of a dict as a sequence (iteration order does not change a sum)
RECURSIVE SetToSeq(_)
SetToSeq(S) == IF S = {} THEN <<>>
               ELSE LET x == CHOOSE y \in S : TRUE IN <<x>> \o SetToSeq(S \ {x})

Mean(s) == RDivInt(SumSeq(s), Len(s))

\* get_system_health
GetSystemHealth(qs, field) ==
    IF DOMAIN qs = {}
    THEN [coherence |-> Zero, ethical_fidelity |-> Zero, consciousness_integration |-> Zero]
    ELSE LET ks == SetToSeq(DOMAIN qs)
         IN  [coherence |-> Mean([i \in 1..Len(ks) |-> qs[ks[i]].coherence]),
              ethical_fidelity |-> Mean([i \in 1..Len(ks) |-> qs[ks[i]].ethical_fidelity]),
              consciousness_integration |->
                  Mean([i \in 1..Len(ks) |-> GetConsciousnessIntegration(qs, field, ks[i])])]

\* the fields the callers pass to update_consciousness_field
NewFieldKinds == {"half", "zero"}
NewField(kind, dim) == Rand(kind, dim, dim)

\* update_consciousness_field: new_field / norm, NaN for the zero field
UpdatedConsciousnessField(new_field) == Normalize(new_field)

\* ------------------------------------------------------ SystemArchitecture
\* system_state: the dict of the facade; ret: the last call and what it
\* returned; ops: the number of state-changing calls made; held: the status
\* dict a caller has kept from an earlier get_system_status()
VARIABLES system_state, ret, ops, held

vars == << core_nodes, aggregation_nodes, edge_nodes, nodes, edges,
           dimension, quantum_states, ethical_constraints, consciousness_field,
           system_state, ret, ops, held >>

graph == << core_nodes, aggregation_nodes, edge_nodes, nodes, edges >>
spc == << dimension, quantum_states, ethical_constraints, consciousness_field >>

InitialSystemState ==
    [initialized |-> TRUE, synchronization_fidelity |-> Zero,
     resource_optimization_score |-> Zero, ethical_compliance |-> Zero,
     consciousness_integration |-> Zero]

NoRet == [op |-> "none"]
NoHeld == [kept |-> FALSE]

\* a dict with floats and a bool as values, after a write into another dict
\* that was made from it with .copy(), or that it was made from: the write
\* does not show in it
SharedDictAfterWrite(mine, written) == written

\* status["system_state"] = self.system_state.copy()
CopiedDictAfterWrite(mine, written) == mine

\* the status dict the caller keeps, after the facade has written new_state
\* into self.system_state
HeldAfter(new_state) ==
    IF held.kept
    THEN [held EXCEPT !.val.system_state = CopiedDictAfterWrite(@, new_state)]
    ELSE held

\* SystemArchitecture(core, agg, edge, dim): FatTreeHierarchy.__init__ then
\* SPCFramework.__init__
Construct(c, a, e, dim, s, f) ==
    /\ core_nodes = c
    /\ aggregation_nodes = a
    /\ edge_nodes = e
    /\ nodes = BuildNodes(c, a, e, s)
    /\ edges = CreateEdges(c, a, e)
    /\ dimension = dim
    /\ quantum_states = << >>
    /\ ethical_constraints = InitialEthicalConstraints
    /\ consciousness_field = InitialConsciousnessField(dim, f)
    /\ system_state = InitialSystemState
    /\ ret = NoRet
    /\ ops = 0
    /\ held = NoHeld

Init ==
    \E c \in 0..MaxCount, a \in 0..MaxCount, e \in 0..MaxCount,
       dim \in Dims, s \in Streams, f \in FieldDraws :
        Construct(c, a, e, dim, s, f)

\* the ids the callers pass: a core node's id and an id that is never a node's
CallIds == {NodeId("core", 0), NodeId("q", 0)}

\* a loop that skips the nodes it cannot register and reports no error
RECURSIVE RegisterNodesSkipping(_, _, _, _)
RegisterNodesSkipping(qs, field, ns, order) ==
    IF order = <<>> THEN [err |-> "none", qs |-> qs]
    ELSE RegisterNodesSkipping(
            CreateQuantumState(qs, field, Head(order), ns[Head(order)].quantum_state).qs,
            field, ns, Tail(order))

\* the loop of initialize_system over nodes.items(): the first exception ends
\* it and leaves what was registered before
RECURSIVE RegisterNodes(_, _, _, _)
RegisterNodes(qs, field, ns, order) ==
    IF order = <<>> THEN [err |-> "none", qs |-> qs]
    ELSE LET r == CreateQuantumState(qs, field, Head(order), ns[Head(order)].quantum_state)
         IN  IF r.err # "none" THEN [err |-> r.err, qs |-> r.qs]
             ELSE RegisterNodes(r.qs, field, ns, Tail(order))

\* FatTreeHierarchy._calculate_coherence: sum |eigenvalue| / 4, clipped.  Every
\* matrix the generator draws here has rank <= 1, so its spectrum is
\* {trace, 0, 0, 0}.
NodeCoherence(state) ==
    Clip01(Frac(Abs(state.data[1] + state.data[6] + state.data[11] + state.data[16]),
                Scale * 4))

\* _calculate_ethical_score
CalculateEthicalScore(node) == node.fidelity_threshold

\* optimize_resource_allocation followed by the mean of initialize_system
AverageUtility(ns) ==
    IF DOMAIN ns = {} THEN Zero
    ELSE LET ks == SetToSeq(DOMAIN ns)
         IN  Mean([i \in 1..Len(ks) |->
                     RMul(NodeCoherence(ns[ks[i]].quantum_state), CalculateEthicalScore(ns[ks[i]]))])

\* an initialize_system that records in 'initialized' whether it succeeded
InitializeSystemFlagging ==
    /\ ops < MaxOps
    /\ LET r == RegisterNodes(quantum_states, consciousness_field, nodes,
                              NodeOrder(core_nodes, aggregation_nodes, edge_nodes))
       IN  /\ quantum_states' = r.qs
           /\ system_state' =
                IF r.err = "none"
                THEN [system_state EXCEPT
                        !.synchronization_fidelity = SynchronizeLayers(nodes, edges),
                        !.resource_optimization_score = AverageUtility(nodes)]
                ELSE [system_state EXCEPT !.initialized = FALSE]
           /\ ret' = [op |-> "initialize", val |-> (r.err = "none")]
    /\ held' = HeldAfter(system_state')
    /\ ops' = ops + 1
    /\ UNCHANGED << graph, dimension, ethical_constraints, consciousness_field >>

\* initialize_system
InitializeSystem ==
    /\ ops < MaxOps
    /\ LET r == RegisterNodes(quantum_states, consciousness_field, nodes,
                              NodeOrder(core_nodes, aggregation_nodes, edge_nodes))
       IN  /\ quantum_states' = r.qs
           /\ system_state' =
                IF r.err = "none"
                THEN [system_state EXCEPT
                        !.synchronization_fidelity = SynchronizeLayers(nodes, edges),
                        !.resource_optimization_score = AverageUtility(nodes)]
                ELSE system_state
           /\ ret' = [op |-> "initialize", val |-> (r.err = "none")]
           /\ nodes' = [id \in DOMAIN nodes |->
                          IF id \in DOMAIN r.qs
                          THEN [nodes[id] EXCEPT
                                  !.quantum_state = CallerArrayAfterCreate(@)]
                          ELSE nodes[id]]
    /\ held' = HeldAfter(system_state')
    /\ ops' = ops + 1
    /\ UNCHANGED << core_nodes, aggregation_nodes, edge_nodes, edges,
                    dimension, ethical_constraints, consciousness_field >>

\* the three means of synchronize_system
EthicalCompliance(qs, cs) ==
    IF DOMAIN qs = {} THEN Zero
    ELSE LET ks == SetToSeq(DOMAIN qs)
         IN  Mean([i \in 1..Len(ks) |->
                     IF ApplyEthicalConstraints(qs, cs, ks[i]) THEN One ELSE Zero])

ConsciousnessIntegration(qs, field) ==
    IF DOMAIN qs = {} THEN Zero
    ELSE LET ks == SetToSeq(DOMAIN qs)
         IN  Mean([i \in 1..Len(ks) |-> GetConsciousnessIntegration(qs, field, ks[i])])

\* synchronize_system
SynchronizeSystem ==
    /\ ops < MaxOps
    /\ LET tree_sync == SynchronizeLayers(nodes, edges)
           avg_ethical == EthicalCompliance(quantum_states, ethical_constraints)
           avg_consciousness == ConsciousnessIntegration(quantum_states, consciousness_field)
       IN  /\ system_state' = [system_state EXCEPT
                                 !.synchronization_fidelity = tree_sync,
                                 !.ethical_compliance = avg_ethical,
                                 !.consciousness_integration = avg_consciousness]
           /\ ret' = [op |-> "synchronize",
                      val |-> RDivInt(RAdd(RAdd(tree_sync, avg_ethical), avg_consciousness), 3)]
    /\ held' = HeldAfter(system_state')
    /\ ops' = ops + 1
    /\ UNCHANGED << graph, spc >>

\* add_quantum_state: create_quantum_state raises err ("none" when it
\* returns); the facade catches it and returns False
AddQuantumState(id, kind) ==
    /\ ops < MaxOps
    /\ LET r == CreateQuantumState(quantum_states, consciousness_field, id,
                                   Wavefunction(kind, dimension))
       IN  /\ quantum_states' = r.qs
           /\ ret' = [op |-> "add_quantum_state", id |-> id, arg |-> kind,
                      err |-> r.err, val |-> (r.err = "none")]
    /\ ops' = ops + 1
    /\ UNCHANGED << held, graph, dimension, ethical_constraints, consciousness_field, system_state >>

\* SPCFramework.evolve_quantum_state called on the registry
Evolve(id, h) ==
    /\ ops < MaxOps
    /\ LET r == EvolveQuantumState(quantum_states, consciousness_field, dimension, id, h)
       IN  /\ quantum_states' = r.qs
           /\ ret' = [op |-> "evolve", id |-> id, arg |-> h, err |-> r.err, state |-> r.state]
    /\ ops' = ops + 1
    /\ UNCHANGED << held, graph, dimension, ethical_constraints, consciousness_field, system_state >>

\* `self.quantum_states[state_id] = updated_state; return updated_state`: the
\* record in the registry and the record the caller receives are one object,
\* so what the caller writes into it is what the registry holds afterwards
StoredRecordAfterCallerWrite(stored, written) == written

\* the caller of evolve_quantum_state sets rec.coherence = 0.0 on the record
\* it was returned (QuantumState is a plain dataclass, its fields are
\* assignable)
MutateReturnedRecord ==
    /\ ret.op = "evolve"
    /\ ret.err = "none"
    /\ LET rec == [ret.state EXCEPT !.coherence = Zero]
       IN  /\ quantum_states' =
                Put(quantum_states, ret.id,
                    StoredRecordAfterCallerWrite(quantum_states[ret.id], rec))
           /\ ret' = [op |-> "mutate_returned", id |-> ret.id, state |-> rec]
    /\ UNCHANGED << held, graph, dimension, ethical_constraints, consciousness_field,
                    system_state, ops >>

\* the loop of evolve_system: every registered state is evolved, a failure is
\* recorded and the loop goes on
RECURSIVE EvolveAll(_, _, _, _, _)
EvolveAll(qs, field, dim, ks, h) ==
    IF ks = <<>> THEN [qs |-> qs, failed |-> {}]
    ELSE LET r == EvolveQuantumState(qs, field, dim, Head(ks), h)
             rest == EvolveAll(r.qs, field, dim, Tail(ks), h)
         IN  [qs |-> rest.qs,
              failed |-> IF r.err = "none" THEN rest.failed ELSE rest.failed \cup {Head(ks)}]

\* evolve_system
EvolveSystem(h) ==
    /\ ops < MaxOps
    /\ LET r == EvolveAll(quantum_states, consciousness_field, dimension,
                          SetToSeq(DOMAIN quantum_states), h)
       IN  /\ quantum_states' = r.qs
           /\ ret' = [op |-> "evolve_system", arg |-> h, failed |-> r.failed]
    /\ ops' = ops + 1
    /\ UNCHANGED << held, graph, dimension, ethical_constraints, consciousness_field, system_state >>

\* remove_quantum_state
RemoveQuantumState(id) ==
    /\ ops < MaxOps
    /\ IF id \in DOMAIN quantum_states
       THEN /\ quantum_states' = Del(quantum_states, id)
            /\ ret' = [op |-> "remove", id |-> id, val |-> TRUE]
       ELSE /\ quantum_states' = quantum_states
            /\ ret' = [op |-> "remove", id |-> id, val |-> FALSE]
    /\ ops' = ops + 1
    /\ UNCHANGED << held, graph, dimension, ethical_constraints, consciousness_field, system_state >>

\* update_consciousness_field
UpdateConsciousnessField(kind) ==
    /\ ops < MaxOps
    /\ consciousness_field' = UpdatedConsciousnessField(NewField(kind, dimension))
    /\ ret' = [op |-> "update_consciousness_field", arg |-> kind]
    /\ ops' = ops + 1
    /\ UNCHANGED << held, graph, dimension, quantum_states, ethical_constraints, system_state >>

\* floor(128 * log2(n)) for n >= 1: the integer part by halving, seven more
\* bits by repeated squaring of the mantissa x/d in [1, 2)
RECURSIVE Log2Bits(_, _, _)
Log2Bits(x, d, bits) ==
    IF bits = 0 THEN 0
    ELSE LET sq == (x * x) \div d
         IN  IF sq >= 2 * d
             THEN Product([i \in 1..(bits - 1) |-> 2]) + Log2Bits(sq \div 2, d, bits - 1)
             ELSE Log2Bits(sq, d, bits - 1)

RECURSIVE FloorLog2(_)
FloorLog2(n) == IF n < 2 THEN 0 ELSE 1 + FloorLog2(n \div 2)

Log2(n) ==
    LET k == FloorLog2(n)
        p == Product([i \in 1..k |-> 2])
    IN  Frac(128 * k + Log2Bits((n * 16384) \div p, 16384, 7), 128)

\* get_logarithmic_depth
GetLogarithmicDepth(ns) ==
    IF Cardinality(DOMAIN ns) > 0 THEN Log2(Cardinality(DOMAIN ns)) ELSE Zero

\* the dict get_system_status returns
SystemStatus ==
    [system_state |-> system_state,
     fat_tree_metrics |->
        [total_nodes |-> Cardinality(DOMAIN nodes),
         total_edges |-> Len(edges),
         logarithmic_depth |-> GetLogarithmicDepth(nodes),
         layer_distribution |->
            [core |-> Cardinality(NodesInLayer(nodes, "core")),
             aggregation |-> Cardinality(NodesInLayer(nodes, "aggregation")),
             edge |-> Cardinality(NodesInLayer(nodes, "edge"))]],
     spc_metrics |-> GetSystemHealth(quantum_states, consciousness_field),
     quantum_states |-> Cardinality(DOMAIN quantum_states),
     ethical_constraints |-> Len(ethical_constraints)]

\* get_system_status
GetSystemStatus ==
    /\ ret' = [op |-> "status", val |-> SystemStatus]
    /\ UNCHANGED << held, graph, spc, system_state, ops >>

\* a validation that asks for some compliant record instead of all
ValidationResultsAny ==
    [fat_tree_valid |-> Cardinality(DOMAIN nodes) > 0,
     spc_framework_valid |-> Cardinality(DOMAIN quantum_states) > 0,
     ethical_constraints_valid |-> Len(ethical_constraints) > 0,
     consciousness_field_valid |-> TRUE,
     synchronization_valid |-> RGt(SynchronizeLayers(nodes, edges), Frac(1, 2)),
     ethical_compliance_valid |->
        \E id \in DOMAIN quantum_states :
            ApplyEthicalConstraints(quantum_states, ethical_constraints, id)]

\* the dict validate_system_integrity returns
ValidationResults ==
    [fat_tree_valid |-> Cardinality(DOMAIN nodes) > 0,
     spc_framework_valid |-> Cardinality(DOMAIN quantum_states) > 0,
     ethical_constraints_valid |-> Len(ethical_constraints) > 0,
     consciousness_field_valid |-> TRUE,
     synchronization_valid |-> RGt(SynchronizeLayers(nodes, edges), Frac(1, 2)),
     ethical_compliance_valid |->
        \A id \in DOMAIN quantum_states :
            ApplyEthicalConstraints(quantum_states, ethical_constraints, id)]

\* a validation that stores the mean layer sync it recomputes
ValidateSystemIntegrityStoring ==
    /\ ret' = [op |-> "validate", val |-> ValidationResults]
    /\ system_state' = [system_state EXCEPT
                          !.synchronization_fidelity = SynchronizeLayers(nodes, edges)]
    /\ UNCHANGED << held, graph, spc, ops >>

\* validate_system_integrity
ValidateSystemIntegrity ==
    /\ ret' = [op |-> "validate", val |-> ValidationResults]
    /\ UNCHANGED << held, graph, spc, system_state, ops >>

\* SPCFramework.apply_ethical_constraints called on the registry
CheckConstraints(id) ==
    /\ ret' = [op |-> "apply_ethical_constraints", id |-> id,
               val |-> ApplyEthicalConstraints(quantum_states, ethical_constraints, id)]
    /\ UNCHANGED << held, graph, spc, system_state, ops >>

Next ==
    \/ InitializeSystem
    \/ SynchronizeSystem
    \/ \E id \in CallIds, kind \in WavefunctionKinds : AddQuantumState(id, kind)
    \/ \E id \in CallIds, h \in Hamiltonians : Evolve(id, h)
    \/ \E h \in Hamiltonians : EvolveSystem(h)
    \/ \E id \in CallIds : RemoveQuantumState(id)
    \/ \E kind \in NewFieldKinds : UpdateConsciousnessField(kind)
    \/ GetSystemStatus
    \/ ValidateSystemIntegrity
    \/ \E id \in CallIds : CheckConstraints(id)

Spec == Init /\ [][Next]_vars

\* ------------------------------------------------- the graph on its own
\* larger graphs, with the calls that only read the graph
InitGraph ==
    \E c \in 0..MaxGraphCount, a \in 0..MaxGraphCount, e \in 0..MaxGraphCount,
       dim \in Dims, s \in Streams, f \in FieldDraws :
        Construct(c, a, e, dim, s, f)

\* get_node_connectivity
GetNodeConnectivity(node_id) ==
    /\ ret' = [op |-> "get_node_connectivity", id |-> node_id,
               val |-> GetConnectedNodes(edges, node_id, 1)]
    /\ UNCHANGED << held, graph, spc, system_state, ops >>

NextGraph ==
    \/ GetSystemStatus
    \/ ValidateSystemIntegrity
    \/ \E node_id \in DOMAIN nodes \cup {NodeId("q", 0)} : GetNodeConnectivity(node_id)

SpecGraph == InitGraph /\ [][NextGraph]_vars

\* ------------------------------------------------- a record that is kept
\* the registry calls whose caller keeps and writes into the record returned
NextAlias ==
    \/ \E id \in CallIds, kind \in WavefunctionKinds : AddQuantumState(id, kind)
    \/ \E id \in CallIds, h \in Hamiltonians : Evolve(id, h)
    \/ MutateReturnedRecord
    \/ GetSystemStatus

SpecAlias == Init /\ [][NextAlias]_vars

\* ---------------------------------------------- a status dict that is kept
\* get_system_status() by a caller who keeps the dict it returns
KeepSystemStatus ==
    /\ ~held.kept
    /\ ret' = [op |-> "status", val |-> SystemStatus]
    /\ held' = [kept |-> TRUE, val |-> SystemStatus]
    /\ UNCHANGED << graph, spc, system_state, ops >>

\* the caller writes status["system_state"]["initialized"] = False and
\* status["quantum_states"] = -1 into the dict it keeps
MutateKeptStatus ==
    /\ held.kept
    /\ held.val.system_state.initialized
    /\ held' = [held EXCEPT !.val.system_state.initialized = FALSE,
                            !.val.quantum_states = -1]
    /\ system_state' = CopiedDictAfterWrite(system_state, held'.val.system_state)
    /\ ret' = [op |-> "mutate_status"]
    /\ UNCHANGED << graph, spc, ops >>

\* the ids and inputs of the calls made while a status dict is kept
NextSnapshot ==
    \/ KeepSystemStatus
    \/ MutateKeptStatus
    \/ GetSystemStatus
    \/ InitializeSystem
    \/ SynchronizeSystem
    \/ AddQuantumState(NodeId("q", 0), "half")
    \/ RemoveQuantumState(NodeId("q", 0))
    \/ EvolveSystem("swap")

SpecSnapshot == Init /\ [][NextSnapshot]_vars

\* ------------------------------------------- construction with any integers
\* the counts and dimensions the callers pass to SystemArchitecture(...)
ConfigCounts == {-1, 0, 1}
ConfigDims == {-1, 0, 2, 4}

\* SystemArchitecture.__init__ checks none of its arguments.  The one
\* exception it can raise comes from np.random.rand(dimension, dimension),
\* which rejects a negative dimension (ValueError); range(n) of a negative
\* count is empty and rand(0, 0) is an array without entries.
ConstructRaises(c, a, e, dim) == dim < 0

\* the facades the constructor returns
InitConfig ==
    \E c \in ConfigCounts, a \in ConfigCounts, e \in ConfigCounts,
       dim \in ConfigDims, s \in Streams, f \in FieldDraws :
        /\ ~ConstructRaises(c, a, e, dim)
        /\ Construct(c, a, e, dim, s, f)

NextConfig ==
    \/ GetSystemStatus
    \/ ValidateSystemIntegrity

SpecConfig == InitConfig /\ [][NextConfig]_vars

\* ------------------------------------------- HyperdimensionalNavigator
\* Floats of quaternion_trajectory.  A double is NaN, +-infinity or a finite
\* number q * Big^e with q a rational of moderate size, e in {0, 1} and Big a
\* double near 1e200: Big * Big is beyond the largest double and overflows to
\* infinity, and Big + q rounds to Big.
XNaN == [k |-> "nan"]
XInf(s) == [k |-> "inf", s |-> s]
Sign(n) == IF n < 0 THEN -1 ELSE 1

XFin(q, e) ==
    IF q.n = 0 THEN [k |-> "fin", q |-> Zero, e |-> 0]
    ELSE IF e >= 2 THEN XInf(Sign(q.n))
    ELSE [k |-> "fin", q |-> q, e |-> e]

XZero == XFin(Zero, 0)
XOne == XFin(One, 0)

\* the coordinate values explored: 0.0, 1.0 and 1e200 (written Big)
Big == 1000 * 1000
CoordValues == {0, 1, Big}
XFloat(v) == IF v = Big THEN XFin(One, 1) ELSE XFin(Frac(v, 1), 0)

XNeg(x) ==
    IF x.k = "nan" THEN XNaN
    ELSE IF x.k = "inf" THEN XInf(-x.s)
    ELSE XFin(Frac(-x.q.n, x.q.d), x.e)

\* IEEE addition: inf + -inf is NaN; of two finite numbers of different
\* scale the sum rounds to the larger one
XAdd(x, y) ==
    IF x.k = "nan" \/ y.k = "nan" THEN XNaN
    ELSE IF x.k = "inf" /\ y.k = "inf" THEN (IF x.s = y.s THEN x ELSE XNaN)
    ELSE IF x.k = "inf" THEN x
    ELSE IF y.k = "inf" THEN y
    ELSE IF x.e = y.e THEN XFin(RAdd(x.q, y.q), x.e)
    ELSE IF x.q.n = 0 THEN y
    ELSE IF y.q.n = 0 THEN x
    ELSE IF x.e > y.e THEN x ELSE y

XSub(x, y) == XAdd(x, XNeg(y))

\* IEEE multiplication: inf * 0 is NaN
XMul(x, y) ==
    IF x.k = "nan" \/ y.k = "nan" THEN XNaN
    ELSE IF x.k = "inf" /\ y.k = "inf" THEN XInf(x.s * y.s)
    ELSE IF x.k = "inf" THEN (IF y.q.n = 0 THEN XNaN ELSE XInf(x.s * Sign(y.q.n)))
    ELSE IF y.k = "inf" THEN (IF x.q.n = 0 THEN XNaN ELSE XInf(y.s * Sign(x.q.n)))
    ELSE XFin(RMul(x.q, y.q), x.e + y.e)

\* abs(x) < 1e-10 for a float; the finite numbers met here are 0 or at least
\* 1e-4 in magnitude
XAbsBelowEps(x) == x.k = "fin" /\ x.e = 0 /\ Abs(x.q.n) * 10000 < x.q.d

\* complex numbers [re, im]; sum and product as the component formulas
Complex(re, im) == [re |-> re, im |-> im]
CAdd(a, b) == Complex(XAdd(a.re, b.re), XAdd(a.im, b.im))
CMul(a, b) ==
    Complex(XSub(XMul(a.re, b.re), XMul(a.im, b.im)),
            XAdd(XMul(a.re, b.im), XMul(a.im, b.re)))

\* float (op) complex converts the float to a complex with imaginary part 0
ToComplex(x) == Complex(x, XZero)
ImaginaryUnit == Complex(XZero, XOne)

\* abs(z) of a complex: infinite when a component is infinite, else NaN when
\* a component is NaN, else the finite hypotenuse
CAbsKind(z) ==
    IF z.re.k = "inf" \/ z.im.k = "inf" THEN "inf"
    ELSE IF z.re.k = "nan" \/ z.im.k = "nan" THEN "nan"
    ELSE "fin"

\* abs(z) < 1e-10 and abs(z) > 0 (both False for NaN)
CAbsBelowEps(z) == CAbsKind(z) = "fin" /\ XAbsBelowEps(z.re) /\ XAbsBelowEps(z.im)
CAbsPositive(z) ==
    \/ CAbsKind(z) = "inf"
    \/ CAbsKind(z) = "fin" /\ (z.re.q.n # 0 \/ z.im.q.n # 0)

\* q = np.zeros(4); q[i] = val for the first four values of the coordinate
Quaternion(coord) ==
    [i \in 1..4 |-> IF i <= Len(coord) THEN XFloat(coord[i]) ELSE XZero]

\* the factor one segment contributes: the quaternion product of its two
\* ends as w + x*1j + y*1j + z*1j, or 1.0 + 0.1j when the product is zero
SegmentFactor(q1, q2) ==
    LET w == XSub(XSub(XSub(XMul(q1[1], q2[1]), XMul(q1[2], q2[2])),
                       XMul(q1[3], q2[3])), XMul(q1[4], q2[4]))
        x == XSub(XAdd(XAdd(XMul(q1[1], q2[2]), XMul(q1[2], q2[1])),
                       XMul(q1[3], q2[4])), XMul(q1[4], q2[3]))
        y == XAdd(XAdd(XSub(XMul(q1[1], q2[3]), XMul(q1[2], q2[4])),
                       XMul(q1[3], q2[1])), XMul(q1[4], q2[2]))
        z == XAdd(XSub(XAdd(XMul(q1[1], q2[4]), XMul(q1[2], q2[3])),
                       XMul(q1[3], q2[2])), XMul(q1[4], q2[1]))
    IN  IF XAbsBelowEps(w) /\ XAbsBelowEps(x) /\ XAbsBelowEps(y) /\ XAbsBelowEps(z)
        THEN Complex(XOne, XFin(Frac(1, 10), 0))
        ELSE CAdd(CAdd(CAdd(ToComplex(w), CMul(ToComplex(x), ImaginaryUnit)),
                       CMul(ToComplex(y), ImaginaryUnit)),
                  CMul(ToComplex(z), ImaginaryUnit))

\* the loop over the segments from the i-th on
RECURSIVE PathIntegral(_, _, _)
PathIntegral(qs, i, result) ==
    IF i >= Len(qs) THEN result
    ELSE PathIntegral(qs, i + 1, CMul(result, SegmentFactor(qs[i], qs[i + 1])))

\* quaternion_trajectory
QuaternionTrajectory(coords) ==
    IF Len(coords) < 2 THEN Complex(XOne, XZero)
    ELSE LET result == PathIntegral([i \in 1..Len(coords) |-> Quaternion(coords[i])], 1,
                                    Complex(XOne, XZero))
         IN  IF CAbsBelowEps(result)
             THEN Complex(XFin(Frac(1, 10), 0), XFin(Frac(1, 10), 0))
             ELSE result

\* the paths explored: up to MaxPath points, each with two or four
\* coordinates
Points ==
    {<<a, b, c, d>> : a \in CoordValues, b \in CoordValues, c \in {0, 1}, d \in {0, 1}}
        \cup {<<a, b>> : a \in {0, 1}, b \in {0, 1}}
Paths == UNION {[1..n -> Points] : n \in 0..MaxPath}

\* a navigator and the path its caller is about to pass; the facade of the
\* other specifications is the empty one and takes no step
InitTrajectory ==
    /\ \E coords \in Paths : ret = [op |-> "path", arg |-> coords]
    /\ core_nodes = 0
    /\ aggregation_nodes = 0
    /\ edge_nodes = 0
    /\ nodes = BuildNodes(0, 0, 0, <<"rowA">>)
    /\ edges = CreateEdges(0, 0, 0)
    /\ dimension = 4
    /\ quantum_states = << >>
    /\ ethical_constraints = InitialEthicalConstraints
    /\ consciousness_field = InitialConsciousnessField(4, "rowA")
    /\ system_state = InitialSystemState
    /\ ops = 0
    /\ held = NoHeld

CallQuaternionTrajectory ==
    /\ ret.op = "path"
    /\ ret' = [op |-> "quaternion_trajectory", arg |-> ret.arg,
               val |-> QuaternionTrajectory(ret.arg)]
    /\ UNCHANGED << held, graph, spc, system_state, ops >>

NextTrajectory == CallQuaternionTrajectory

SpecTrajectory == InitTrajectory /\ [][NextTrajectory]_vars

\* ------------------------------------------------------------------ claims
Layer(id) == nodes[id].layer

\* C1: the graph has core + agg + edge nodes and core*agg + agg*edge edges,
\* and status() reports these two numbers as total_nodes and total_edges;
\* build(4, 8, 16) gives 28 nodes and 160 edges.
C1_Counts ==
    /\ Cardinality(DOMAIN nodes) = core_nodes + aggregation_nodes + edge_nodes
    /\ Len(edges) = core_nodes * aggregation_nodes + aggregation_nodes * edge_nodes
    /\ ret.op = "status" =>
          /\ ret.val.fat_tree_metrics.total_nodes
                = core_nodes + aggregation_nodes + edge_nodes
          /\ ret.val.fat_tree_metrics.total_edges
                = core_nodes * aggregation_nodes + aggregation_nodes * edge_nodes
    /\ ret.op = "none" =>
          /\ Cardinality(DOMAIN BuildNodes(4, 8, 16, <<"rowA">>)) = 28
          /\ Len(CreateEdges(4, 8, 16)) = 160

C1_Witness ==
    /\ ret.op = "status"
    /\ core_nodes >= 2 /\ aggregation_nodes >= 2 /\ edge_nodes >= 1
    /\ ret.val.fat_tree_metrics.total_edges >= 6

\* C2: every edge joins a core node with an aggregation node or an
\* aggregation node with an edge-layer node, both endpoints are nodes, no edge
\* occurs twice (in either direction), and every core-aggregation pair and
\* every aggregation-edge pair is joined.
C2_AdjacentLayersComplete ==
    /\ \A k \in 1..Len(edges) :
          /\ edges[k][1] \in DOMAIN nodes
          /\ edges[k][2] \in DOMAIN nodes
          /\ \/ Layer(edges[k][1]) = "core" /\ Layer(edges[k][2]) = "aggregation"
             \/ Layer(edges[k][1]) = "aggregation" /\ Layer(edges[k][2]) = "edge"
    /\ \A j, k \in 1..Len(edges) :
          j # k => /\ edges[j] # edges[k]
                   /\ edges[j] # <<edges[k][2], edges[k][1]>>
    /\ \A u, v \in DOMAIN nodes :
          \/ Layer(u) = "core" /\ Layer(v) = "aggregation"
          \/ Layer(u) = "aggregation" /\ Layer(v) = "edge"
          => \E k \in 1..Len(edges) : edges[k] = <<u, v>>

C2_Witness ==
    /\ \E k \in 1..Len(edges) : Layer(edges[k][1]) = "core"
    /\ \E k \in 1..Len(edges) : Layer(edges[k][2]) = "edge"
    /\ Len(edges) >= 12

\* a state np.linalg.norm gives 0 for
ZeroNorm(a) == Norm(a) = 0

\* C3 (as claimed): initialize() as the first call on a facade whose nodes
\* all have a non-zero state returns True, and then the registry holds
\* exactly one record per graph node, keyed by the node id.
C3_InitializeRegistersEveryNode ==
    (/\ ret.op = "initialize"
     /\ ops = 1
     /\ \A id \in DOMAIN nodes : ~ZeroNorm(nodes[id].quantum_state))
    => /\ ret.val = TRUE
       /\ DOMAIN quantum_states = DOMAIN nodes
       /\ Cardinality(DOMAIN quantum_states) = Cardinality(DOMAIN nodes)

\* C4: registering a vector of norm zero fails (create_quantum_state raises,
\* the facade reports False) and leaves the registry as it was: nothing is
\* stored or replaced under the id.
C4_ZeroVectorRejected ==
    [][(/\ ret'.op = "add_quantum_state"
        /\ ops' = ops + 1
        /\ ZeroNorm(Wavefunction(ret'.arg, dimension)))
       => /\ ret'.err # "none"
          /\ ret'.val = FALSE
          /\ quantum_states' = quantum_states]_vars

C4_Witness ==
    /\ ret.op = "add_quantum_state"
    /\ ret.arg = "zero"
    /\ ret.err = "LinAlgError"
    /\ ret.id \in DOMAIN quantum_states

\* C5: initialize() does not return True when registering some node failed:
\* with a node whose state has norm zero, or whose state does not have as
\* many entries as the field, it returns False; and when it returns True
\* every node is registered.
C5_NoSilentSuccess ==
    ret.op = "initialize" =>
        /\ (\E id \in DOMAIN nodes :
               \/ ZeroNorm(nodes[id].quantum_state)
               \/ Size(nodes[id].quantum_state) # Size(consciousness_field))
           => ret.val = FALSE
        /\ ret.val = TRUE => DOMAIN nodes \subseteq DOMAIN quantum_states

C5_Witness ==
    /\ ret.op = "initialize"
    /\ ret.val = FALSE
    /\ dimension = 4
    /\ \E id \in DOMAIN nodes : ZeroNorm(nodes[id].quantum_state)
    /\ quantum_states # << >>

\* C6: evolve on an id that is not registered raises (ValueError, "not
\* found") and leaves the registry unchanged.
C6_EvolveUnknownId ==
    [][(/\ ret'.op = "evolve"
        /\ ops' = ops + 1
        /\ ret'.id \notin DOMAIN quantum_states)
       => /\ ret'.err = "ValueError"
          /\ quantum_states' = quantum_states]_vars

C6_Witness ==
    /\ ret.op = "evolve"
    /\ ret.err = "ValueError"
    /\ ret.id \notin DOMAIN quantum_states
    /\ quantum_states # << >>

\* C7: remove(id) returns True exactly when id was registered; afterwards id
\* is absent and every other record is as before; on an absent id it returns
\* False and changes nothing.
C7_Remove ==
    [][(ret'.op = "remove" /\ ops' = ops + 1)
       => /\ ret'.val = (ret'.id \in DOMAIN quantum_states)
          /\ DOMAIN quantum_states' = DOMAIN quantum_states \ {ret'.id}
          /\ \A k \in DOMAIN quantum_states' : quantum_states'[k] = quantum_states[k]
          /\ ret'.id \notin DOMAIN quantum_states => quantum_states' = quantum_states]_vars

C7_Witness ==
    /\ ret.op = "remove"
    /\ ret.val = TRUE
    /\ quantum_states # << >>

\* C8 (as claimed): satisfies_constraints(id) is False for an unknown id and
\* otherwise True exactly when alignment >= threshold, coherence >= threshold
\* and entanglement <= threshold hold for the constraints of those names.
C8_ConstraintsIff ==
    LET Meets(st, c) ==
            /\ c.name = "fidelity_threshold" => RGe(st.ethical_fidelity, c.threshold)
            /\ c.name = "coherence_threshold" => RGe(st.coherence, c.threshold)
            /\ c.name = "entanglement_bound" => RLe(st.entanglement_entropy, c.threshold)
    IN  ret.op = "apply_ethical_constraints" =>
            ret.val = (/\ ret.id \in DOMAIN quantum_states
                       /\ \A k \in 1..Len(ethical_constraints) :
                            Meets(quantum_states[ret.id], ethical_constraints[k]))

\* the three components of synchronize(), each 0 over an empty set
MeanLayerSync ==
    IF Len(edges) = 0 THEN Zero
    ELSE RDivInt(SumSeq([k \in 1..Len(edges) |->
                           CalculateSyncFidelity(nodes[edges[k][1]], nodes[edges[k][2]])]),
                 Len(edges))

PassFraction ==
    IF DOMAIN quantum_states = {} THEN Zero
    ELSE Frac(Cardinality({id \in DOMAIN quantum_states :
                             ApplyEthicalConstraints(quantum_states, ethical_constraints, id)}),
              Cardinality(DOMAIN quantum_states))

MeanAlignment ==
    IF DOMAIN quantum_states = {} THEN Zero
    ELSE LET ks == SetToSeq(DOMAIN quantum_states)
         IN  RDivInt(SumSeq([i \in 1..Len(ks) |->
                               Clip01(AbsVdot(quantum_states[ks[i]].wavefunction,
                                              consciousness_field))]), Len(ks))

\* C9 (as claimed): synchronize() returns (mean layer sync + fraction of
\* records passing all constraints + mean alignment) / 3, a value in [0, 1].
C9_SynchronizeInUnitInterval ==
    ret.op = "synchronize" =>
        /\ ret.val = RDivInt(RAdd(RAdd(MeanLayerSync, PassFraction), MeanAlignment), 3)
        /\ RGe(ret.val, Zero)
        /\ RLe(ret.val, One)

\* C10: validate_integrity() cannot raise (every edge endpoint is a key of
\* nodes) and returns the six booleans: the graph has a node, the registry
\* has a record, the constraint list is not empty, the field is present, the
\* mean layer sync is > 0.5 and every record passes all constraints.
C10_ValidateIntegrity ==
    /\ \A k \in 1..Len(edges) : edges[k][1] \in DOMAIN nodes /\ edges[k][2] \in DOMAIN nodes
    /\ ret.op = "validate" =>
          /\ DOMAIN ret.val =
               {"fat_tree_valid", "spc_framework_valid", "ethical_constraints_valid",
                "consciousness_field_valid", "synchronization_valid",
                "ethical_compliance_valid"}
          /\ ret.val.fat_tree_valid = (DOMAIN nodes # {})
          /\ ret.val.spc_framework_valid = (DOMAIN quantum_states # {})
          /\ ret.val.ethical_constraints_valid = (ethical_constraints # << >>)
          /\ ret.val.consciousness_field_valid = TRUE
          /\ ret.val.synchronization_valid = RGt(MeanLayerSync, Frac(1, 2))
          /\ ret.val.ethical_compliance_valid =
               (PassFraction = One \/ DOMAIN quantum_states = {})

C10_Witness ==
    /\ ret.op = "validate"
    /\ ret.val.synchronization_valid
    /\ ret.val.spc_framework_valid
    /\ ~ret.val.ethical_compliance_valid

\* C11 (as claimed): no facade exists whose core, aggregation or edge count is
\* negative or whose quantum dimension is <= 0: the constructor refuses such
\* a configuration.
C11_ConfigurationRejected ==
    /\ core_nodes >= 0
    /\ aggregation_nodes >= 0
    /\ edge_nodes >= 0
    /\ dimension >= 1

\* C12: no call changes the graph: the node ids, every node's layer,
\* position, state and threshold, the edge list (content and order) and the
\* three counts are after each call what they were before it, hence what
\* they were right after construction.
C12_GraphFixedAtBuild ==
    [][/\ nodes' = nodes
       /\ edges' = edges
       /\ core_nodes' = core_nodes
       /\ aggregation_nodes' = aggregation_nodes
       /\ edge_nodes' = edge_nodes]_vars

C12_Witness ==
    /\ ret.op = "evolve_system"
    /\ ops = 2
    /\ ret.failed = {}
    /\ DOMAIN quantum_states = DOMAIN nodes
    /\ Len(edges) = 2
    /\ \E id \in DOMAIN nodes :
          quantum_states[id].wavefunction # Normalize(nodes[id].quantum_state)

\* C13: on a degenerate topology the three calls return the defaults: without
\* edges the mean layer sync is 0 (and so not > 0.5), with an empty registry
\* every metric of the health summary is 0, the logarithmic depth of a graph
\* without nodes (and of one node) is 0, and synchronize() returns 0 when
\* there is neither an edge nor a record.
C13_DegenerateDefaults ==
    /\ ret.op = "synchronize" /\ Len(edges) = 0 =>
          /\ system_state.synchronization_fidelity = Zero
          /\ DOMAIN quantum_states = {} => ret.val = Zero
    /\ ret.op = "synchronize" /\ DOMAIN quantum_states = {} =>
          /\ system_state.ethical_compliance = Zero
          /\ system_state.consciousness_integration = Zero
    /\ ret.op = "status" /\ DOMAIN quantum_states = {} =>
          /\ ret.val.spc_metrics.coherence = Zero
          /\ ret.val.spc_metrics.ethical_fidelity = Zero
          /\ ret.val.spc_metrics.consciousness_integration = Zero
          /\ ret.val.quantum_states = 0
    /\ ret.op = "status" /\ Cardinality(DOMAIN nodes) <= 1 =>
          ret.val.fat_tree_metrics.logarithmic_depth = Zero
    /\ ret.op = "validate" /\ Len(edges) = 0 => ~ret.val.synchronization_valid
    /\ ret.op = "validate" /\ DOMAIN quantum_states = {} =>
          ~ret.val.spc_framework_valid /\ ret.val.ethical_compliance_valid

C13_Witness ==
    /\ ret.op = "synchronize"
    /\ DOMAIN nodes = {}
    /\ Len(edges) = 0
    /\ DOMAIN quantum_states = {}
    /\ ret.val = Zero

\* C14: neighbors(node_id) is the list of the ids joined to node_id by an
\* edge, each once: the aggregation ids in index order for a core node, the
\* core ids then the edge-layer ids in index order for an aggregation node,
\* the aggregation ids in index order for an edge-layer node, and the empty
\* list for an id that is not a node.
C14_NeighborsInEdgeOrder ==
    ret.op = "get_node_connectivity" =>
        /\ {ret.val[k] : k \in 1..Len(ret.val)} =
              {v \in DOMAIN nodes :
                  \E k \in 1..Len(edges) :
                      edges[k] = <<ret.id, v>> \/ edges[k] = <<v, ret.id>>}
        /\ \A j, k \in 1..Len(ret.val) : j # k => ret.val[j] # ret.val[k]
        /\ ret.val =
              IF ret.id \notin DOMAIN nodes THEN <<>>
              ELSE IF Layer(ret.id) = "core" THEN IdRange("agg", aggregation_nodes)
              ELSE IF Layer(ret.id) = "aggregation"
              THEN IdRange("core", core_nodes) \o IdRange("edge", edge_nodes)
              ELSE IdRange("agg", aggregation_nodes)

C14_Witness ==
    /\ ret.op = "get_node_connectivity"
    /\ ret.id = NodeId("agg", 1)
    /\ core_nodes = 2
    /\ edge_nodes = 3
    /\ Len(ret.val) = 5

\* C15 (as claimed): the fidelity of an edge with a zero-norm state at either
\* end is 0, so the mean layer sync that synchronize() stores is a number in
\* [0, 1] also when the graph has a node whose state is zero.
C15_ZeroNormGuard ==
    ret.op = "synchronize" =>
        /\ \A k \in 1..Len(edges) :
              (\/ ZeroNorm(nodes[edges[k][1]].quantum_state)
               \/ ZeroNorm(nodes[edges[k][2]].quantum_state))
              => CalculateSyncFidelity(nodes[edges[k][1]], nodes[edges[k][2]]) = Zero
        /\ RGe(system_state.synchronization_fidelity, Zero)
        /\ RLe(system_state.synchronization_fidelity, One)

\* C16 (as claimed): the record evolve returned to the caller is not the
\* record the registry holds: when the caller writes into it, the registry
\* stays as it was.
C16_NoAliasing ==
    [][ret'.op = "mutate_returned" => quantum_states' = quantum_states]_vars

\* C17: a status dict the caller keeps is a snapshot: no later call of the
\* facade changes it, and what the caller writes into it changes neither the
\* facade's state nor what status() reports afterwards.
C17_StatusIsSnapshot ==
    [][/\ (held.kept /\ ret'.op # "mutate_status") => held' = held
       /\ ret'.op = "mutate_status" =>
             /\ system_state' = system_state
             /\ quantum_states' = quantum_states
             /\ consciousness_field' = consciousness_field
             /\ nodes' = nodes
             /\ edges' = edges
       /\ (ret'.op = "status" /\ held'.kept /\ ~held'.val.system_state.initialized)
             => ret'.val.system_state = system_state]_vars

C17_Witness ==
    /\ held.kept
    /\ ret.op = "status"
    /\ ~held.val.system_state.initialized
    /\ ret.val.system_state.initialized
    /\ held.val.system_state.synchronization_fidelity
          # ret.val.system_state.synchronization_fidelity

\* C18 (as claimed): for every path, quaternion_trajectory returns a complex
\* number whose magnitude is > 0.
C18_TrajectoryMagnitudePositive ==
    ret.op = "quaternion_trajectory" => CAbsPositive(ret.val)

\* C19: evolve on a registered id leaves the set of registered ids and every
\* other record as they were; when it returns, the record under the id is the
\* record returned, whose three scalars are computed from its vector; when it
\* raises, the registry is as before.  evolve_system does the same for each
\* registered id.
C19_EvolveReplacesOneRecord ==
    [][/\ (/\ ret'.op = "evolve"
           /\ ops' = ops + 1
           /\ ret'.id \in DOMAIN quantum_states)
          => /\ DOMAIN quantum_states' = DOMAIN quantum_states
             /\ \A k \in DOMAIN quantum_states \ {ret'.id} :
                   quantum_states'[k] = quantum_states[k]
             /\ ret'.err = "none" =>
                   /\ quantum_states'[ret'.id] = ret'.state
                   /\ ret'.state.coherence = CalculateCoherence(ret'.state.wavefunction)
                   /\ ret'.state.entanglement_entropy
                         = CalculateEntanglementEntropy(ret'.state.wavefunction)
                   /\ ret'.state.ethical_fidelity
                         = CalculateEthicalFidelity(ret'.state.wavefunction,
                                                    consciousness_field)
             /\ ret'.err # "none" => quantum_states' = quantum_states
       /\ (ret'.op = "evolve_system" /\ ops' = ops + 1)
          => /\ DOMAIN quantum_states' = DOMAIN quantum_states
             /\ \A k \in ret'.failed : quantum_states'[k] = quantum_states[k]]_vars

C19_Witness ==
    /\ ret.op = "evolve"
    /\ ret.err = "none"
    /\ ret.arg = "swap"
    /\ Cardinality(DOMAIN quantum_states) >= 2
    /\ ret.id \in DOMAIN nodes
    /\ quantum_states[ret.id].wavefunction # Normalize(nodes[ret.id].quantum_state)
    /\ \E k \in DOMAIN nodes \ {ret.id} :
          quantum_states[k].wavefunction = Normalize(nodes[k].quantum_state)

\* C20: the set of registered ids is the set of ids registered and not
\* removed since.  Step by step: a register that returns adds its id (an id
\* already present stays once, the size is unchanged), a register that fails
\* adds nothing, initialize() adds the ids of the nodes it registered (all of
\* them when it returns True, so the size is then total_nodes plus the ids
\* that are not node ids), evolve keeps the set, remove takes its id out, and
\* status() reports the number of ids in the set.
C20_LiveIds ==
    [][/\ ret'.op = "add_quantum_state" =>
             DOMAIN quantum_states' =
                IF ret'.val THEN DOMAIN quantum_states \cup {ret'.id}
                ELSE DOMAIN quantum_states
       /\ ret'.op = "initialize" =>
             /\ DOMAIN quantum_states \subseteq DOMAIN quantum_states'
             /\ DOMAIN quantum_states' \subseteq DOMAIN quantum_states \cup DOMAIN nodes
             /\ ret'.val =>
                   /\ DOMAIN quantum_states' = DOMAIN quantum_states \cup DOMAIN nodes
                   /\ Cardinality(DOMAIN quantum_states')
                         = Cardinality(DOMAIN nodes)
                             + Cardinality(DOMAIN quantum_states \ DOMAIN nodes)
       /\ ret'.op \in {"evolve", "evolve_system"} =>
             DOMAIN quantum_states' = DOMAIN quantum_states
       /\ ret'.op = "remove" =>
             DOMAIN quantum_states' = DOMAIN quantum_states \ {ret'.id}
       /\ ret'.op \in {"synchronize", "update_consciousness_field", "validate",
                       "apply_ethical_constraints"} =>
             DOMAIN quantum_states' = DOMAIN quantum_states
       /\ ret'.op = "status" =>
             /\ DOMAIN quantum_states' = DOMAIN quantum_states
             /\ ret'.val.quantum_states = Cardinality(DOMAIN quantum_states)]_vars

C20_Witness ==
    /\ ret.op = "initialize"
    /\ ret.val = TRUE
    /\ ops = 2
    /\ NodeId("q", 0) \in DOMAIN quantum_states
    /\ Cardinality(DOMAIN nodes) = 3
    /\ Cardinality(DOMAIN quantum_states) = 4

\* C21: get_system_status and validate_system_integrity are read-only: each
\* leaves the registry, the consciousness field, the constraint list, the
\* graph and the stored system_state unchanged.  validate_system_integrity
\* recomputes the mean layer sync and does not store it: the system_state a
\* status reports is the stored one, a validation that follows a status
\* leaves the stored system_state equal to the reported one, and a status
\* that follows a validation reports the system_state the validation found.
C21_QueriesReadOnly ==
    [][/\ ret'.op \in {"status", "validate"} =>
             /\ quantum_states' = quantum_states
             /\ consciousness_field' = consciousness_field
             /\ ethical_constraints' = ethical_constraints
             /\ dimension' = dimension
             /\ nodes' = nodes
             /\ edges' = edges
             /\ core_nodes' = core_nodes
             /\ aggregation_nodes' = aggregation_nodes
             /\ edge_nodes' = edge_nodes
             /\ system_state' = system_state
       /\ ret'.op = "status" => ret'.val.system_state = system_state
       /\ (ret.op = "status" /\ ret'.op = "validate") =>
             system_state' = ret.val.system_state
       /\ (ret.op = "validate" /\ ret'.op = "status") =>
             ret'.val.system_state = system_state]_vars

\* a validation that found a mean layer sync above 1/2 while the stored
\* synchronization_fidelity is still the 0.0 of construction
C21_Witness ==
    /\ ret.op = "validate"
    /\ ret.val.synchronization_valid
    /\ SynchronizeLayers(nodes, edges) # system_state.synchronization_fidelity
    /\ system_state.synchronization_fidelity = Zero
    /\ Len(edges) > 0

\* C22: the stored system_state is written only by initialize_system
\* (synchronization_fidelity and resource_optimization_score) and by
\* synchronize_system (synchronization_fidelity, ethical_compliance and
\* consciousness_integration).  'initialized' is True in every reachable
\* state, also before initialize_system is called and after it has returned
\* False; before the first call that changes anything the dict is the one of
\* construction; an initialize_system step keeps the other three fields, a
\* synchronize_system step keeps the other two, and every other call
\* (register, remove, evolve, field update, the queries) keeps the whole
\* dict, so ethical_compliance and consciousness_integration are 0.0 until
\* the first synchronize_system.
C22_SystemStateWriters ==
    /\ [](system_state.initialized = TRUE)
    /\ [](ops = 0 => system_state = InitialSystemState)
    /\ [][/\ ret'.op = "initialize" =>
                /\ system_state'.initialized = system_state.initialized
                /\ system_state'.ethical_compliance = system_state.ethical_compliance
                /\ system_state'.consciousness_integration
                      = system_state.consciousness_integration
          /\ ret'.op = "synchronize" =>
                /\ system_state'.initialized = system_state.initialized
                /\ system_state'.resource_optimization_score
                      = system_state.resource_optimization_score
          /\ ret'.op \notin {"initialize", "synchronize"} =>
                system_state' = system_state]_vars

\* an initialize_system that returned False on a graph with edges, after a
\* synchronize_system: the flag is True, and the fields of the first
\* synchronize_system are still there
C22_Witness ==
    /\ ret.op = "initialize"
    /\ ret.val = FALSE
    /\ system_state.initialized = TRUE
    /\ ops = 2
    /\ Len(edges) > 0
    /\ system_state.synchronization_fidelity # Zero
    /\ system_state.resource_optimization_score = Zero
=============================================================================
